---- MODULE Spec2Model ----
(***************************************************************************)
(* SkillSwap session lifecycle: the Session document's status state        *)
(* machine (models/Session.js), the route handlers that drive it           *)
(* (routes/sessions.js) and their side effects on users, the audit log and *)
(* the conversation of the two participants.                               *)
(*                                                                         *)
(* Every HTTP request runs in a slot.  A handler is cut into steps at its  *)
(* awaits: between two steps of one request any step of another request    *)
(* may run (Node's event loop), and a step itself is atomic.  A Mongoose   *)
(* document is a private in-memory copy of the stored document; save()     *)
(* writes the paths modified since the load ($set) and the array elements  *)
(* pushed since the load ($push), with no condition on the stored status.  *)
(***************************************************************************)
EXTENDS Integers, Sequences, FiniteSets, TLC

VARIABLES
    sessions,       \* the sessions collection: sequence of stored documents, id = index
    users,          \* the users collection: user id -> stored stats, points, achievements
    req,            \* request slot -> position and private documents of the request in it
    audit,          \* the audit log: <<action, session id>> -> number of events recorded
    conversations,  \* participants (a set of user ids) -> number of conversation documents
    messages,       \* <<message kind, session id>> -> number of messages posted
    transitions,    \* history: session id -> number of transition saves that succeeded
    statsUpdates,   \* history: session id -> number of times its completion updated the tutor's stats
    fired,          \* history: <<user, milestone>> -> number of times the route granted it
    response,       \* the response sent last: "ok" or the error message
    notesReceived,  \* history: number of notes requests received so far
    reviews,        \* the reviews collection: sequence of stored documents
    basicSessions,  \* the sessions collection of the pending/scheduled/completed/cancelled variant
    inbox,          \* the messages sent through the messages routes: sequence of stored documents
    unreadCounts    \* participants -> the unreadCounts map of their conversation (no entry = 0)

vars == <<sessions, users, req, audit, conversations, messages,
          transitions, statsUpdates, fired, response, notesReceived, reviews,
          basicSessions, inbox, unreadCounts>>

(***************************************************************************)
(* Bounds of the model.                                                    *)
(***************************************************************************)
NumUsers == 2
MaxSessions == 2
MaxInflight == 2
MaxOperations == 4
MaxPairOperations == 6
MaxNotes == 1
MaxModerations == 2
MaxMessages == 3

(***************************************************************************)
(* Program constants.                                                      *)
(***************************************************************************)
DefaultTutorPoints == 20
DefaultStudentPoints == 10
DefaultDuration == 60

Users == 1..NumUsers
NoUser == 0
SessionIds == 1..MaxSessions
Slots == 1..MaxInflight

NoReason == "none"
Reasons == {"schedule conflict"}
NoNotes == ""
NotesTexts == {"notes"}

TransitionOps == {"confirm", "cancel", "start", "complete"}
AuditActions == {"SESSION_CREATE", "SESSION_CONFIRM", "SESSION_CANCEL", "SESSION_COMPLETE",
                 "REVIEW_CREATE", "REVIEW_FLAG", "ADMIN_CONTENT_MODERATE"}
MessageKinds == {"session-request", "confirmed", "cancelled"}
Milestones == {"First Session Hosted", "First Lesson Learned"}

(***************************************************************************)
(* Session documents (models/Session.js).                                  *)
(***************************************************************************)
HistoryEntry(st, by, why) == [status |-> st, changedBy |-> by, reason |-> why]

NoCancellation == [cancelledBy |-> NoUser, reason |-> NoReason]

NewSession(tutorId, studentId) ==
    [tutor |-> tutorId, student |-> studentId,
     duration |-> DefaultDuration,
     status |-> "pending",
     statusHistory |-> << >>,
     cancellation |-> NoCancellation,
     tutorNotes |-> NoNotes, studentNotes |-> NoNotes,
     pointsAwarded |-> [tutor |-> 0, student |-> 0]]

NoDoc == [tutor |-> NoUser, student |-> NoUser,
          duration |-> 0,
          status |-> "none",
          statusHistory |-> << >>,
          cancellation |-> NoCancellation,
          tutorNotes |-> NoNotes, studentNotes |-> NoNotes,
          pointsAwarded |-> [tutor |-> 0, student |-> 0]]

\* sessionSchema.pre('save'): a save that modifies status pushes a history entry.
\* `loaded` is the document as it was read, `doc` the copy the handler changed.
preSave(loaded, doc) ==
    IF doc.status # loaded.status
    THEN [doc EXCEPT !.statusHistory =
                        Append(@, HistoryEntry(doc.status, NoUser, NoReason))]
    ELSE doc

\* Mutant: the whole private copy is written over the stored document.
save_overwrites(db, loaded, doc) == preSave(loaded, doc)

\* Mutant: the whole statusHistory array of the private copy is written.
save_setsHistory(db, loaded, doc) ==
    LET d == preSave(loaded, doc) IN
    [db EXCEPT
        !.status = IF d.status # loaded.status THEN d.status ELSE @,
        !.statusHistory = d.statusHistory,
        !.cancellation = IF d.cancellation # loaded.cancellation
                         THEN d.cancellation ELSE @,
        !.pointsAwarded = IF d.pointsAwarded # loaded.pointsAwarded
                          THEN d.pointsAwarded ELSE @,
        !.tutorNotes = IF d.tutorNotes # loaded.tutorNotes THEN d.tutorNotes ELSE @,
        !.studentNotes = IF d.studentNotes # loaded.studentNotes
                         THEN d.studentNotes ELSE @]

\* document.save() of a loaded session: the pre-save hook, then one update of
\* the stored document `db` carrying the modified paths and the pushed entries.
save(db, loaded, doc) ==
    LET d == preSave(loaded, doc) IN
    [db EXCEPT
        !.status = IF d.status # loaded.status THEN d.status ELSE @,
        !.statusHistory = @ \o SubSeq(d.statusHistory,
                                      Len(loaded.statusHistory) + 1,
                                      Len(d.statusHistory)),
        !.cancellation = IF d.cancellation # loaded.cancellation
                         THEN d.cancellation ELSE @,
        !.pointsAwarded = IF d.pointsAwarded # loaded.pointsAwarded
                          THEN d.pointsAwarded ELSE @,
        !.tutorNotes = IF d.tutorNotes # loaded.tutorNotes THEN d.tutorNotes ELSE @,
        !.studentNotes = IF d.studentNotes # loaded.studentNotes
                         THEN d.studentNotes ELSE @]

\* sessionSchema.methods.confirm: the guard and the changes to the document.
canConfirm(doc) == doc.status = "pending"

confirm(doc, userId) ==
    [doc EXCEPT !.status = "confirmed",
                !.statusHistory = Append(@, HistoryEntry("confirmed", userId, NoReason))]

\* Mutant: every session that is not cancelled yet can be cancelled.
canCancel_notCancelled(doc) == doc.status # "cancelled"

\* sessionSchema.methods.cancel
canCancel(doc) == doc.status \in {"pending", "confirmed"}

\* Mutant: the history entry of the cancellation carries no reason.
cancel_noReason(doc, userId, reason) ==
    [doc EXCEPT !.status = "cancelled",
                !.cancellation = [cancelledBy |-> userId, reason |-> reason],
                !.statusHistory = Append(@, HistoryEntry("cancelled", userId, NoReason))]

cancel(doc, userId, reason) ==
    [doc EXCEPT !.status = "cancelled",
                !.cancellation = [cancelledBy |-> userId, reason |-> reason],
                !.statusHistory = Append(@, HistoryEntry("cancelled", userId, reason))]

\* sessionSchema.methods.complete
canComplete(doc) == ~(doc.status # "in-progress" /\ doc.status # "confirmed")

complete(doc, tutorPoints, studentPoints) ==
    [doc EXCEPT !.status = "completed",
                !.pointsAwarded = [tutor |-> tutorPoints, student |-> studentPoints]]

\* sessionSchema.methods.start
canStart(doc) == doc.status = "confirmed"

start(doc) == [doc EXCEPT !.status = "in-progress"]

(***************************************************************************)
(* User documents.                                                         *)
(***************************************************************************)
NewUser == [sessionsHosted |-> 0, sessionsCompleted |-> 0,
            totalMinutesTaught |-> 0, totalMinutesLearned |-> 0,
            averageRating |-> 0,
            points |-> 0, achievements |-> {}]

\* No review document.
NoReview == [session |-> 0, reviewer |-> NoUser, reviewee |-> NoUser,
             reviewType |-> "none", overall |-> 0,
             isApproved |-> FALSE, moderationStatus |-> "none"]

\* The request's idle slot.
IdleReq == [pc |-> "idle", op |-> "none", actor |-> NoUser, sid |-> 0,
            doc |-> NoDoc, tutor |-> NewUser, student |-> NewUser,
            rid |-> 0, review |-> NoReview]

Init ==
    /\ sessions = << >>
    /\ users = [u \in Users |-> NewUser]
    /\ req = [r \in Slots |-> IdleReq]
    /\ audit = [k \in AuditActions \X SessionIds |-> 0]
    /\ conversations = [p \in SUBSET Users |-> 0]
    /\ messages = [k \in MessageKinds \X SessionIds |-> 0]
    /\ transitions = [s \in SessionIds |-> 0]
    /\ statsUpdates = [s \in SessionIds |-> 0]
    /\ fired = [k \in Users \X Milestones |-> 0]
    /\ response = "none"
    /\ notesReceived = 0
    /\ reviews = << >>
    /\ basicSessions = << >>
    /\ inbox = << >>
    /\ unreadCounts = [p \in SUBSET Users |-> [u \in Users |-> 0]]


(***************************************************************************)
(* Collaborators of the handlers.                                          *)
(***************************************************************************)
\* A request ends with the response `result`: its slot is free again.
respond(r, result) ==
    /\ req' = [req EXCEPT ![r] = IdleReq]
    /\ response' = result

\* A request moves on to its next await.
continue(r, next) ==
    /\ req' = next
    /\ UNCHANGED response

RECURSIVE Sum(_, _)
Sum(f, S) == IF S = {} THEN 0
             ELSE LET x == CHOOSE y \in S : TRUE IN f[x] + Sum(f, S \ {x})

\* Sessions created and transitions applied so far, plus the requests other
\* than notes requests now in the slots.
operations ==
    Len(sessions) + Sum(transitions, SessionIds)
        + Cardinality({q \in Slots : req[q].pc \notin {"idle", "notes", "notes-save"}})

\* A request arrives and takes the first free slot, r.
receive(r) ==
    /\ req[r].pc = "idle"
    /\ \A q \in Slots : q < r => req[q].pc # "idle"

goto(r, pc) == [req EXCEPT ![r].pc = pc]

\* AuditLog.log: one event appended to the audit log.
log(action, sid) == [audit EXCEPT ![<<action, sid>>] = @ + 1]

\* Conversation.getOrCreate, its findOne: a conversation of exactly these
\* participants is stored.
findOne(participants) == conversations[participants] > 0

\* Conversation.getOrCreate after a findOne that found none: a new
\* conversation of the participants is saved.
getOrCreate(participants) == [conversations EXCEPT ![participants] = @ + 1]

\* Mutant: the message is never saved.
postMessage_dropped(kind, sid) == messages

\* new Message({...}).save() with relatedSession = sid
postMessage(kind, sid) == [messages EXCEPT ![<<kind, sid>>] = @ + 1]

\* user.addAchievement: grants the achievement, a no-op when the user has it.
addAchievement(u, name) ==
    [users EXCEPT ![u].achievements = @ \cup {name}]

\* canAccessSession: resolves :id to the session document (req.sessionDoc) and
\* lets only the session's tutor and student through.
canAccessSession(r, op, u, sid) ==
    /\ receive(r)
    /\ IF sid > Len(sessions)
       THEN respond(r, "Session not found")
       ELSE IF u # sessions[sid].tutor /\ u # sessions[sid].student
            THEN respond(r, "Access denied")
            ELSE continue(r, [req EXCEPT ![r] = [IdleReq EXCEPT
                            !.pc = op, !.op = op, !.actor = u, !.sid = sid,
                            !.doc = sessions[sid]]])
    /\ UNCHANGED <<sessions, users, audit, conversations, messages,
                   transitions, statsUpdates, fired>>

(***************************************************************************)
(* POST /sessions/request/:userId                                          *)
(***************************************************************************)
\* Up to session.save(): the tutor lookup and the insert of the new session.
RequestSession(r, studentId, tutorId) ==
    /\ receive(r)
    /\ IF tutorId \notin Users
       THEN /\ respond(r, "User not found")
            /\ UNCHANGED sessions
       ELSE /\ sessions' = Append(sessions, NewSession(tutorId, studentId))
            /\ continue(r, [req EXCEPT ![r] = [IdleReq EXCEPT
                          !.pc = "request-notify", !.op = "request",
                          !.actor = studentId, !.sid = Len(sessions) + 1,
                          !.doc = NewSession(tutorId, studentId)]])
    /\ UNCHANGED <<users, audit, conversations, messages,
                   transitions, statsUpdates, fired>>

\* After the insert: the audit event and the findOne of getOrCreate; with a
\* conversation found, the request message and the achievement.
RequestNotify(r) ==
    /\ req[r].pc = "request-notify"
    /\ audit' = log("SESSION_CREATE", req[r].sid)
    /\ IF findOne({req[r].doc.student, req[r].doc.tutor})
       THEN /\ messages' = postMessage("session-request", req[r].sid)
            /\ users' = addAchievement(req[r].actor, "Session Seeker")
            /\ respond(r, "ok")
       ELSE /\ continue(r, goto(r, "request-create"))
            /\ UNCHANGED <<messages, users>>
    /\ UNCHANGED <<sessions, conversations, transitions, statsUpdates, fired>>

\* No conversation was found: one is created, then the request message and
\* the achievement.
RequestCreate(r) ==
    /\ req[r].pc = "request-create"
    /\ conversations' = getOrCreate({req[r].doc.student, req[r].doc.tutor})
    /\ messages' = postMessage("session-request", req[r].sid)
    /\ users' = addAchievement(req[r].actor, "Session Seeker")
    /\ respond(r, "ok")
    /\ UNCHANGED <<sessions, audit, transitions, statsUpdates, fired>>

(***************************************************************************)
(* POST /sessions/:id/confirm                                              *)
(***************************************************************************)
\* Mutant: the check lets either participant through.
onlyTutor_participant(doc, userId) == doc.tutor # userId /\ doc.student # userId

\* The tutor check of the route: TRUE when the request is refused.
onlyTutor(doc, userId) == doc.tutor # userId

\* Up to the write of session.confirm(userId).
Confirm(r) ==
    LET q == req[r] IN
    /\ q.pc = "confirm"
    /\ IF onlyTutor(q.doc, q.actor)
       THEN /\ respond(r, "Only the tutor can confirm sessions")
            /\ UNCHANGED <<sessions, transitions>>
       ELSE IF ~canConfirm(q.doc)
       THEN /\ respond(r, "Only pending sessions can be confirmed")
            /\ UNCHANGED <<sessions, transitions>>
       ELSE /\ sessions' = [sessions EXCEPT ![q.sid] =
                               save(@, q.doc, confirm(q.doc, q.actor))]
            /\ transitions' = [transitions EXCEPT ![q.sid] = @ + 1]
            /\ continue(r, goto(r, "confirm-audit"))
    /\ UNCHANGED <<users, audit, conversations, messages, statsUpdates, fired>>

ConfirmAudit(r) ==
    /\ req[r].pc = "confirm-audit"
    /\ audit' = log("SESSION_CONFIRM", req[r].sid)
    /\ continue(r, goto(r, "confirm-message"))
    /\ UNCHANGED <<sessions, users, conversations, messages,
                   transitions, statsUpdates, fired>>

\* The findOne of getOrCreate and, with a conversation found, the message.
ConfirmMessage(r) ==
    /\ req[r].pc = "confirm-message"
    /\ IF findOne({req[r].doc.tutor, req[r].doc.student})
       THEN /\ messages' = postMessage("confirmed", req[r].sid)
            /\ respond(r, "ok")
       ELSE /\ continue(r, goto(r, "confirm-create"))
            /\ UNCHANGED messages
    /\ UNCHANGED <<sessions, users, audit, conversations,
                   transitions, statsUpdates, fired>>

\* No conversation was found: one is created, then the message.
ConfirmCreate(r) ==
    /\ req[r].pc = "confirm-create"
    /\ conversations' = getOrCreate({req[r].doc.tutor, req[r].doc.student})
    /\ messages' = postMessage("confirmed", req[r].sid)
    /\ respond(r, "ok")
    /\ UNCHANGED <<sessions, users, audit, transitions, statsUpdates, fired>>

(***************************************************************************)
(* POST /sessions/:id/cancel                                               *)
(***************************************************************************)
\* Mutant: a cancellation that is refused is recorded in the audit log.
Cancel_logsAttempt(r, reason) ==
    LET q == req[r] IN
    /\ q.pc = "cancel"
    /\ IF ~canCancel(q.doc)
       THEN /\ respond(r, "This session cannot be cancelled")
            /\ audit' = log("SESSION_CANCEL", q.sid)
            /\ UNCHANGED <<sessions, transitions>>
       ELSE /\ sessions' = [sessions EXCEPT ![q.sid] =
                               save(@, q.doc, cancel(q.doc, q.actor, reason))]
            /\ transitions' = [transitions EXCEPT ![q.sid] = @ + 1]
            /\ continue(r, goto(r, "cancel-audit"))
            /\ UNCHANGED audit
    /\ UNCHANGED <<users, conversations, messages, statsUpdates, fired>>

Cancel(r, reason) ==
    LET q == req[r] IN
    /\ q.pc = "cancel"
    /\ IF ~canCancel(q.doc)
       THEN /\ respond(r, "This session cannot be cancelled")
            /\ UNCHANGED <<sessions, transitions>>
       ELSE /\ sessions' = [sessions EXCEPT ![q.sid] =
                               save(@, q.doc, cancel(q.doc, q.actor, reason))]
            /\ transitions' = [transitions EXCEPT ![q.sid] = @ + 1]
            /\ continue(r, goto(r, "cancel-audit"))
    /\ UNCHANGED <<users, audit, conversations, messages, statsUpdates, fired>>

CancelAudit(r) ==
    /\ req[r].pc = "cancel-audit"
    /\ audit' = log("SESSION_CANCEL", req[r].sid)
    /\ continue(r, goto(r, "cancel-message"))
    /\ UNCHANGED <<sessions, users, conversations, messages,
                   transitions, statsUpdates, fired>>

\* The findOne of getOrCreate and, with a conversation found, the message.
CancelMessage(r) ==
    /\ req[r].pc = "cancel-message"
    /\ IF findOne({req[r].doc.tutor, req[r].doc.student})
       THEN /\ messages' = postMessage("cancelled", req[r].sid)
            /\ respond(r, "ok")
       ELSE /\ continue(r, goto(r, "cancel-create"))
            /\ UNCHANGED messages
    /\ UNCHANGED <<sessions, users, audit, conversations,
                   transitions, statsUpdates, fired>>

\* No conversation was found: one is created, then the message.
CancelCreate(r) ==
    /\ req[r].pc = "cancel-create"
    /\ conversations' = getOrCreate({req[r].doc.tutor, req[r].doc.student})
    /\ messages' = postMessage("cancelled", req[r].sid)
    /\ respond(r, "ok")
    /\ UNCHANGED <<sessions, users, audit, transitions, statsUpdates, fired>>

(***************************************************************************)
(* POST /sessions/:id/start                                                *)
(***************************************************************************)
Start(r) ==
    LET q == req[r] IN
    /\ q.pc = "start"
    /\ IF ~canStart(q.doc)
       THEN /\ respond(r, "Only confirmed sessions can be started")
            /\ UNCHANGED <<sessions, transitions>>
       ELSE /\ sessions' = [sessions EXCEPT ![q.sid] = save(@, q.doc, start(q.doc))]
            /\ transitions' = [transitions EXCEPT ![q.sid] = @ + 1]
            /\ respond(r, "ok")
    /\ UNCHANGED <<users, audit, conversations, messages, statsUpdates, fired>>

(***************************************************************************)
(* POST /sessions/:id/complete                                             *)
(***************************************************************************)
\* Up to the write of session.complete(20, 10).
Complete(r) ==
    LET q == req[r] IN
    /\ q.pc = "complete"
    /\ IF ~canComplete(q.doc)
       THEN /\ respond(r, "Only confirmed or in-progress sessions can be completed")
            /\ UNCHANGED <<sessions, transitions>>
       ELSE /\ sessions' = [sessions EXCEPT ![q.sid] =
                               save(@, q.doc, complete(q.doc, DefaultTutorPoints,
                                                       DefaultStudentPoints))]
            /\ transitions' = [transitions EXCEPT ![q.sid] = @ + 1]
            /\ continue(r, goto(r, "complete-find-tutor"))
    /\ UNCHANGED <<users, audit, conversations, messages, statsUpdates, fired>>

\* const tutor = await User.findById(session.tutor)
CompleteFindTutor(r) ==
    /\ req[r].pc = "complete-find-tutor"
    /\ continue(r, [req EXCEPT ![r].tutor = users[req[r].doc.tutor],
                                ![r].pc = "complete-find-student"])
    /\ UNCHANGED <<sessions, users, audit, conversations, messages,
                   transitions, statsUpdates, fired>>

\* const student = await User.findById(session.student)
CompleteFindStudent(r) ==
    /\ req[r].pc = "complete-find-student"
    /\ continue(r, [req EXCEPT ![r].student = users[req[r].doc.student],
                                ![r].pc = "complete-save-tutor"])
    /\ UNCHANGED <<sessions, users, audit, conversations, messages,
                   transitions, statsUpdates, fired>>

\* The tutor document after the route's three updates of it.
tutorStats(tutor, duration) ==
    [tutor EXCEPT !.sessionsHosted = @ + 1,
                  !.totalMinutesTaught = @ + duration,
                  !.points = @ + DefaultTutorPoints]

\* The student document after the route's three updates of it.
studentStats(student, duration) ==
    [student EXCEPT !.sessionsCompleted = @ + 1,
                    !.totalMinutesLearned = @ + duration,
                    !.points = @ + DefaultStudentPoints]

\* tutor.save(): the three modified paths are written from the private copy.
CompleteSaveTutor(r) ==
    LET q == req[r]
        t == tutorStats(q.tutor, q.doc.duration) IN
    /\ q.pc = "complete-save-tutor"
    /\ users' = [users EXCEPT ![q.doc.tutor].sessionsHosted = t.sessionsHosted,
                              ![q.doc.tutor].totalMinutesTaught = t.totalMinutesTaught,
                              ![q.doc.tutor].points = t.points]
    /\ statsUpdates' = [statsUpdates EXCEPT ![q.sid] = @ + 1]
    /\ continue(r, [req EXCEPT ![r].tutor = t, ![r].pc = "complete-save-student"])
    /\ UNCHANGED <<sessions, audit, conversations, messages, transitions, fired>>

\* Mutant: the check holds from the first hosted session on.
firstSessionHosted_atLeast(tutor) == tutor.sessionsHosted >= 1

\* The route's milestone checks, on the private copies after their updates.
firstSessionHosted(tutor) == tutor.sessionsHosted = 1

firstLessonLearned(student) == student.sessionsCompleted = 1

\* student.save(), then on to the first achievement check that holds.
CompleteSaveStudent(r) ==
    LET q == req[r]
        s == studentStats(q.student, q.doc.duration) IN
    /\ q.pc = "complete-save-student"
    /\ users' = [users EXCEPT ![q.doc.student].sessionsCompleted = s.sessionsCompleted,
                              ![q.doc.student].totalMinutesLearned = s.totalMinutesLearned,
                              ![q.doc.student].points = s.points]
    /\ continue(r, [req EXCEPT ![r].student = s,
                                ![r].pc = IF firstSessionHosted(q.tutor)
                                          THEN "complete-achievement-tutor"
                                          ELSE IF firstLessonLearned(s)
                                          THEN "complete-achievement-student"
                                          ELSE "complete-audit"])
    /\ UNCHANGED <<sessions, audit, conversations, messages,
                   transitions, statsUpdates, fired>>

CompleteAchievementTutor(r) ==
    LET q == req[r] IN
    /\ q.pc = "complete-achievement-tutor"
    /\ users' = addAchievement(q.doc.tutor, "First Session Hosted")
    /\ fired' = [fired EXCEPT ![<<q.doc.tutor, "First Session Hosted">>] = @ + 1]
    /\ continue(r, goto(r, IF firstLessonLearned(q.student)
                            THEN "complete-achievement-student"
                            ELSE "complete-audit"))
    /\ UNCHANGED <<sessions, audit, conversations, messages,
                   transitions, statsUpdates>>

CompleteAchievementStudent(r) ==
    LET q == req[r] IN
    /\ q.pc = "complete-achievement-student"
    /\ users' = addAchievement(q.doc.student, "First Lesson Learned")
    /\ fired' = [fired EXCEPT ![<<q.doc.student, "First Lesson Learned">>] = @ + 1]
    /\ continue(r, goto(r, "complete-audit"))
    /\ UNCHANGED <<sessions, audit, conversations, messages,
                   transitions, statsUpdates>>

CompleteAudit(r) ==
    /\ req[r].pc = "complete-audit"
    /\ audit' = log("SESSION_COMPLETE", req[r].sid)
    /\ respond(r, "ok")
    /\ UNCHANGED <<sessions, users, conversations, messages,
                   transitions, statsUpdates, fired>>

(***************************************************************************)
(* POST /sessions/:id/notes                                                *)
(***************************************************************************)
\* const session = await Session.findById(req.params.id)
NotesFind(r) ==
    /\ req[r].pc = "notes"
    /\ continue(r, [req EXCEPT ![r].doc = sessions[req[r].sid], ![r].pc = "notes-save"])
    /\ UNCHANGED <<sessions, users, audit, conversations, messages,
                   transitions, statsUpdates, fired>>

\* The route's change to the document it read.
notes(doc, userId, text) ==
    IF doc.tutor = userId
    THEN [doc EXCEPT !.tutorNotes = text]
    ELSE [doc EXCEPT !.studentNotes = text]

NotesSave(r, text) ==
    LET q == req[r] IN
    /\ q.pc = "notes-save"
    /\ sessions' = [sessions EXCEPT ![q.sid] = save(@, q.doc, notes(q.doc, q.actor, text))]
    /\ respond(r, "ok")
    /\ UNCHANGED <<users, audit, conversations, messages,
                   transitions, statsUpdates, fired>>

(***************************************************************************)
(* POST /reviews/create/:sessionId (routes/reviews.js) and the Review      *)
(* model.  stats.averageRating is kept in tenths.                          *)
(***************************************************************************)
Ratings == {5}

NewReview(sid, reviewerId, revieweeId, type, overall) ==
    [session |-> sid, reviewer |-> reviewerId, reviewee |-> revieweeId,
     reviewType |-> type, overall |-> overall,
     isApproved |-> TRUE, moderationStatus |-> "approved"]

\* Review.findOne({session, reviewer}) finds a document.
existingReview(sid, userId) ==
    \E i \in 1..Len(reviews) :
        reviews[i].session = sid /\ reviews[i].reviewer = userId

\* Mutant: the collection has no unique index.
duplicateKey_noIndex(review) == FALSE

\* reviewSchema.index({session: 1, reviewer: 1}, {unique: true}): the insert of
\* `review` is refused with a duplicate key error.
duplicateKey(review) ==
    \E i \in 1..Len(reviews) :
        /\ reviews[i].session = review.session
        /\ reviews[i].reviewer = review.reviewer

\* Review.countDocuments({reviewer: userId})
reviewCount(userId) ==
    Cardinality({i \in 1..Len(reviews) : reviews[i].reviewer = userId})

\* reviewSchema.post('save'): the average of ratings.overall over the approved
\* reviews of the reviewee, rounded to one decimal, is written to the reviewee.
averageRating(revs, u) ==
    LET S == {i \in 1..Len(revs) :
                 /\ revs[i].reviewee = u
                 /\ revs[i].isApproved
                 /\ revs[i].moderationStatus = "approved"}
        total == Sum([i \in 1..Len(revs) |-> revs[i].overall], S)
    IN  (20 * total + Cardinality(S)) \div (2 * Cardinality(S))

postSave(revs, review) ==
    IF \E i \in 1..Len(revs) :
           /\ revs[i].reviewee = review.reviewee
           /\ revs[i].isApproved
           /\ revs[i].moderationStatus = "approved"
    THEN [users EXCEPT ![review.reviewee].averageRating =
                            averageRating(revs, review.reviewee)]
    ELSE users

\* Up to Review.findOne: the session lookup and the checks on it.
ReviewSession(r, u, sid) ==
    /\ receive(r)
    /\ IF sid > Len(sessions) \/ (sid <= Len(sessions) /\ sessions[sid].status # "completed")
       THEN respond(r, "Invalid session")
       ELSE IF sessions[sid].tutor # u /\ sessions[sid].student # u
            THEN respond(r, "You are not a participant in this session")
            ELSE continue(r, [req EXCEPT ![r] = [IdleReq EXCEPT
                            !.pc = "review-find", !.op = "review", !.actor = u,
                            !.sid = sid, !.doc = sessions[sid]]])
    /\ UNCHANGED <<sessions, users, audit, conversations, messages,
                   transitions, statsUpdates, fired, reviews>>

\* Review.findOne has answered: the check for an existing review.
ReviewFindExisting(r) ==
    LET q == req[r] IN
    /\ q.pc = "review-find"
    /\ IF existingReview(q.sid, q.actor)
       THEN respond(r, "You have already reviewed this session")
       ELSE continue(r, goto(r, "review-save"))
    /\ UNCHANGED <<sessions, users, audit, conversations, messages,
                   transitions, statsUpdates, fired, reviews>>

\* review.save(): the insert, refused by the unique index when the pair has
\* a review (the route's catch answers 500), and the post-save hook.
ReviewSave(r, overall) ==
    LET q == req[r]
        isTutor == q.doc.tutor = q.actor
        review == NewReview(q.sid, q.actor,
                            IF isTutor THEN q.doc.student ELSE q.doc.tutor,
                            IF isTutor THEN "tutor-review" ELSE "student-review",
                            overall) IN
    /\ q.pc = "review-save"
    /\ IF duplicateKey(review)
       THEN /\ respond(r, "Failed to submit review")
            /\ UNCHANGED <<reviews, users>>
       ELSE /\ reviews' = Append(reviews, review)
            /\ users' = postSave(Append(reviews, review), review)
            /\ continue(r, goto(r, "review-audit"))
    /\ UNCHANGED <<sessions, audit, conversations, messages,
                   transitions, statsUpdates, fired>>

ReviewAudit(r) ==
    /\ req[r].pc = "review-audit"
    /\ audit' = log("REVIEW_CREATE", req[r].sid)
    /\ continue(r, goto(r, "review-achievement"))
    /\ UNCHANGED <<sessions, users, conversations, messages,
                   transitions, statsUpdates, fired, reviews>>

\* User.findById, Review.countDocuments and the achievement of the count.
ReviewAchievement(r) ==
    LET q == req[r] IN
    /\ q.pc = "review-achievement"
    /\ users' = IF reviewCount(q.actor) = 1
                THEN addAchievement(q.actor, "First Review")
                ELSE IF reviewCount(q.actor) = 10
                THEN addAchievement(q.actor, "Dedicated Reviewer")
                ELSE users
    /\ respond(r, "ok")
    /\ UNCHANGED <<sessions, audit, conversations, messages,
                   transitions, statsUpdates, fired, reviews>>

(***************************************************************************)
(* POST /reviews/:id/flag (routes/reviews.js) and POST                     *)
(* /admin/reviews/:id/moderate: the moderation of a stored review.  The    *)
(* note, the moderator and the date the admin route also sets carry no     *)
(* behaviour and are left out.                                             *)
(***************************************************************************)
ModerationActions == {"approve", "remove", "flag"}

\* review.save() of a loaded review: the modified paths are written.
saveReview(db, loaded, doc) ==
    [db EXCEPT
        !.moderationStatus = IF doc.moderationStatus # loaded.moderationStatus
                             THEN doc.moderationStatus ELSE @,
        !.isApproved = IF doc.isApproved # loaded.isApproved
                       THEN doc.isApproved ELSE @]

\* Review.findById and the check of the reason.
FlagFind(r, u, rid, reasonGiven) ==
    /\ receive(r)
    /\ IF rid > Len(reviews)
       THEN respond(r, "Review not found")
       ELSE IF ~reasonGiven
            THEN respond(r, "Please provide a reason (at least 10 characters)")
            ELSE continue(r, [req EXCEPT ![r] = [IdleReq EXCEPT
                            !.pc = "flag-audit", !.op = "flag", !.actor = u,
                            !.sid = reviews[rid].session,
                            !.rid = rid, !.review = reviews[rid]]])
    /\ UNCHANGED <<sessions, users, audit, conversations, messages,
                   transitions, statsUpdates, fired, reviews>>

FlagAudit(r) ==
    /\ req[r].pc = "flag-audit"
    /\ audit' = log("REVIEW_FLAG", req[r].sid)
    /\ continue(r, goto(r, "flag-save"))
    /\ UNCHANGED <<sessions, users, conversations, messages,
                   transitions, statsUpdates, fired, reviews>>

\* The route's change to the review it read.
flagged(review) == [review EXCEPT !.moderationStatus = "pending"]

\* review.moderationStatus = 'pending'; review.save() with its post-save hook.
FlagSave(r) ==
    LET q == req[r]
        stored == [reviews EXCEPT ![q.rid] = saveReview(@, q.review, flagged(q.review))] IN
    /\ q.pc = "flag-save"
    /\ reviews' = stored
    /\ users' = postSave(stored, stored[q.rid])
    /\ respond(r, "ok")
    /\ UNCHANGED <<sessions, audit, conversations, messages,
                   transitions, statsUpdates, fired>>

\* The switch of the admin route on the action.
moderate(review, action) ==
    CASE action = "approve" -> [review EXCEPT !.moderationStatus = "approved",
                                              !.isApproved = TRUE]
      [] action = "remove"  -> [review EXCEPT !.moderationStatus = "removed",
                                              !.isApproved = FALSE]
      [] action = "flag"    -> [review EXCEPT !.moderationStatus = "flagged",
                                              !.isApproved = FALSE]
      [] OTHER              -> review

\* Review.findById and the check of the action, up to review.save().
ModerateFind(r, rid, action) ==
    /\ receive(r)
    /\ IF rid > Len(reviews)
       THEN respond(r, "Review not found")
       ELSE IF action \notin ModerationActions
            THEN respond(r, "Invalid action")
            ELSE continue(r, [req EXCEPT ![r] = [IdleReq EXCEPT
                            !.pc = "moderate-save", !.op = action,
                            !.sid = reviews[rid].session,
                            !.rid = rid, !.review = reviews[rid]]])
    /\ UNCHANGED <<sessions, users, audit, conversations, messages,
                   transitions, statsUpdates, fired, reviews>>

\* review.save() with its post-save hook.
ModerateSave(r) ==
    LET q == req[r]
        stored == [reviews EXCEPT ![q.rid] =
                      saveReview(@, q.review, moderate(q.review, q.op))] IN
    /\ q.pc = "moderate-save"
    /\ reviews' = stored
    /\ users' = postSave(stored, stored[q.rid])
    /\ continue(r, goto(r, "moderate-audit"))
    /\ UNCHANGED <<sessions, audit, conversations, messages,
                   transitions, statsUpdates, fired>>

\* AuditLog.logAdmin and the response.
ModerateAudit(r) ==
    /\ req[r].pc = "moderate-audit"
    /\ audit' = log("ADMIN_CONTENT_MODERATE", req[r].sid)
    /\ respond(r, "ok")
    /\ UNCHANGED <<sessions, users, conversations, messages,
                   transitions, statsUpdates, fired, reviews>>

(***************************************************************************)
(* Failing collaborators: the database refuses a write or a read of a side *)
(* effect that follows the status write.                                   *)
(***************************************************************************)
\* error.message of the error the driver throws.
DependencyFailure == "dependency failure"

AuditSteps == {"confirm-audit", "cancel-audit", "complete-audit"}

CreateSteps == {"confirm-create", "cancel-create"}

MessageSteps == {"confirm-message", "cancel-message"} \cup CreateSteps

StatsSteps == {"complete-find-tutor", "complete-find-student",
               "complete-save-tutor", "complete-save-student",
               "complete-achievement-tutor", "complete-achievement-student"}

\* The catch of a transition's route: status 500, success false and the
\* error's message.
routeCatch(r) == respond(r, DependencyFailure)

\* Mutant: log lets the error of log.save() through to its caller.
logCatch_rethrows(r) == routeCatch(r)

\* The catch of AuditLog.log: the error is printed, null is returned and the
\* caller goes on after its await.
logCatch(r) ==
    IF req[r].pc = "complete-audit"
    THEN respond(r, "ok")
    ELSE continue(r, goto(r, IF req[r].pc = "confirm-audit"
                             THEN "confirm-message" ELSE "cancel-message"))

\* AuditLog.log when log.save() fails: no event is recorded.
AuditLogFails(r) ==
    /\ req[r].pc \in AuditSteps
    /\ logCatch(r)
    /\ UNCHANGED <<sessions, users, audit, conversations, messages,
                   transitions, statsUpdates, fired>>

\* Conversation.getOrCreate or message.save() throws: at getOrCreate nothing
\* is written, at message.save() a conversation just created is there.
MessageFails(r) ==
    /\ req[r].pc \in MessageSteps
    /\ \/ UNCHANGED conversations
       \/ /\ req[r].pc \in CreateSteps
          /\ conversations' = getOrCreate({req[r].doc.tutor, req[r].doc.student})
    /\ routeCatch(r)
    /\ UNCHANGED <<sessions, users, audit, messages, transitions, statsUpdates, fired>>

\* User.findById, tutor.save(), student.save() or addAchievement throws.
StatsFail(r) ==
    /\ req[r].pc \in StatsSteps
    /\ routeCatch(r)
    /\ UNCHANGED <<sessions, users, audit, conversations, messages,
                   transitions, statsUpdates, fired>>

(***************************************************************************)
(* Specifications.                                                         *)
(***************************************************************************)
\* A session request arrives: at most `limit` sessions are created and at most
\* `budget` operations are applied in a run.
RequestArrives(r, budget, limit) ==
    /\ operations < budget
    /\ Len(sessions) < limit
    /\ \E s \in Users, t \in Users \cup {NoUser} : RequestSession(r, s, t)
    /\ UNCHANGED <<notesReceived, reviews, basicSessions, inbox, unreadCounts>>

\* A request for one of the transitions `ops` arrives.
TransitionArrives(r, budget, ops) ==
    /\ operations < budget
    /\ \E op \in ops, u \in Users, sid \in SessionIds : canAccessSession(r, op, u, sid)
    /\ UNCHANGED <<notesReceived, reviews, basicSessions, inbox, unreadCounts>>

\* A notes request arrives: at most MaxNotes of them in a run.
NotesArrives(r) ==
    /\ notesReceived < MaxNotes
    /\ \E u \in Users, sid \in SessionIds : canAccessSession(r, "notes", u, sid)
    /\ notesReceived' = notesReceived + 1
    /\ UNCHANGED <<reviews, basicSessions, inbox, unreadCounts>>

RequestSteps(r) ==
    /\ RequestNotify(r) \/ RequestCreate(r)
    /\ UNCHANGED <<notesReceived, reviews, basicSessions, inbox, unreadCounts>>

ConfirmSteps(r) ==
    /\ Confirm(r) \/ ConfirmAudit(r) \/ ConfirmMessage(r) \/ ConfirmCreate(r)
    /\ UNCHANGED <<notesReceived, reviews, basicSessions, inbox, unreadCounts>>

CancelSteps(r) ==
    /\ \/ \E reason \in Reasons : Cancel(r, reason)
       \/ CancelAudit(r)
       \/ CancelMessage(r)
       \/ CancelCreate(r)
    /\ UNCHANGED <<notesReceived, reviews, basicSessions, inbox, unreadCounts>>

StartSteps(r) == Start(r) /\ UNCHANGED <<notesReceived, reviews, basicSessions, inbox, unreadCounts>>

CompleteSteps(r) ==
    /\ \/ Complete(r)
       \/ CompleteFindTutor(r)
       \/ CompleteFindStudent(r)
       \/ CompleteSaveTutor(r)
       \/ CompleteSaveStudent(r)
       \/ CompleteAchievementTutor(r)
       \/ CompleteAchievementStudent(r)
       \/ CompleteAudit(r)
    /\ UNCHANGED <<notesReceived, reviews, basicSessions, inbox, unreadCounts>>

NotesSteps(r) ==
    /\ NotesFind(r) \/ (\E text \in NotesTexts : NotesSave(r, text))
    /\ UNCHANGED <<notesReceived, reviews, basicSessions, inbox, unreadCounts>>

\* Requests on one session overlap: every operation, in up to MaxInflight
\* requests at a time.
Next ==
    \E r \in Slots :
        \/ RequestArrives(r, MaxOperations, 1)
        \/ TransitionArrives(r, MaxOperations, TransitionOps)
        \/ NotesArrives(r)
        \/ RequestSteps(r)
        \/ ConfirmSteps(r)
        \/ CancelSteps(r)
        \/ StartSteps(r)
        \/ CompleteSteps(r)
        \/ NotesSteps(r)

Spec == Init /\ [][Next]_vars

\* Requests on up to MaxSessions sessions run one after another: every
\* operation, one request at a time.
NextSeq ==
    \/ RequestArrives(1, MaxPairOperations, MaxSessions)
    \/ TransitionArrives(1, MaxPairOperations, TransitionOps)
    \/ NotesArrives(1)
    \/ RequestSteps(1)
    \/ ConfirmSteps(1)
    \/ CancelSteps(1)
    \/ StartSteps(1)
    \/ CompleteSteps(1)
    \/ NotesSteps(1)

SpecSeq == Init /\ [][NextSeq]_vars

\* Completions of up to MaxSessions sessions overlap: sessions are requested,
\* confirmed and completed, in up to MaxInflight requests at a time.
NextPair ==
    \E r \in Slots :
        \/ RequestArrives(r, MaxPairOperations, MaxSessions)
        \/ TransitionArrives(r, MaxPairOperations, {"confirm", "complete"})
        \/ RequestSteps(r)
        \/ ConfirmSteps(r)
        \/ CompleteSteps(r)

SpecPair == Init /\ [][NextPair]_vars

FailSteps(r) ==
    /\ AuditLogFails(r) \/ MessageFails(r) \/ StatsFail(r)
    /\ UNCHANGED <<notesReceived, reviews, basicSessions, inbox, unreadCounts>>

\* Requests on one session run one after another and the side effects that
\* follow a status write can fail.
NextFail ==
    \/ RequestArrives(1, MaxOperations, 1)
    \/ TransitionArrives(1, MaxOperations, TransitionOps)
    \/ RequestSteps(1)
    \/ ConfirmSteps(1)
    \/ CancelSteps(1)
    \/ StartSteps(1)
    \/ CompleteSteps(1)
    \/ FailSteps(1)

SpecFail == Init /\ [][NextFail]_vars

\* A review is submitted.
ReviewArrives(r) ==
    /\ \E u \in Users, sid \in SessionIds : ReviewSession(r, u, sid)
    /\ UNCHANGED <<notesReceived, basicSessions, inbox, unreadCounts>>

ReviewSteps(r) ==
    /\ \/ ReviewFindExisting(r)
       \/ \E overall \in Ratings : ReviewSave(r, overall)
       \/ ReviewAudit(r)
       \/ ReviewAchievement(r)
    /\ UNCHANGED <<notesReceived, basicSessions, inbox, unreadCounts>>

\* One session is requested, confirmed and completed, one request at a time;
\* reviews of it are submitted in up to MaxInflight requests at a time.
NextReview ==
    \/ RequestArrives(1, MaxOperations, 1)
    \/ TransitionArrives(1, MaxOperations, {"confirm", "complete"})
    \/ RequestSteps(1)
    \/ ConfirmSteps(1)
    \/ CompleteSteps(1)
    \/ \E r \in Slots : ReviewArrives(r) \/ ReviewSteps(r)

SpecReview == Init /\ [][NextReview]_vars

\* Flag and moderation requests recorded so far or in a slot now.
moderations ==
    Sum([s \in SessionIds |-> audit[<<"REVIEW_FLAG", s>>]
                                + audit[<<"ADMIN_CONTENT_MODERATE", s>>]], SessionIds)
        + Cardinality({q \in Slots :
                          req[q].pc \in {"flag-audit", "flag-save", "moderate-save"}})

\* A user flags a review: at most MaxModerations flags and moderations in a run.
FlagArrives(r) ==
    /\ moderations < MaxModerations
    /\ \E u \in Users, rid \in 1..(MaxSessions * NumUsers), reasonGiven \in BOOLEAN :
          FlagFind(r, u, rid, reasonGiven)
    /\ UNCHANGED <<notesReceived, basicSessions, inbox, unreadCounts>>

FlagSteps(r) ==
    /\ FlagAudit(r) \/ FlagSave(r)
    /\ UNCHANGED <<notesReceived, basicSessions, inbox, unreadCounts>>

\* An admin moderates a review.
ModerateArrives(r) ==
    /\ moderations < MaxModerations
    /\ \E rid \in 1..(MaxSessions * NumUsers), action \in ModerationActions \cup {"none"} :
          ModerateFind(r, rid, action)
    /\ UNCHANGED <<notesReceived, basicSessions, inbox, unreadCounts>>

ModerateSteps(r) ==
    /\ ModerateSave(r) \/ ModerateAudit(r)
    /\ UNCHANGED <<notesReceived, basicSessions, inbox, unreadCounts>>

\* One session is requested, confirmed and completed, its reviews are
\* submitted, flagged and moderated, one request at a time.
NextModerate ==
    \/ RequestArrives(1, MaxOperations, 1)
    \/ TransitionArrives(1, MaxOperations, {"confirm", "complete"})
    \/ RequestSteps(1)
    \/ ConfirmSteps(1)
    \/ CompleteSteps(1)
    \/ ReviewArrives(1)
    \/ ReviewSteps(1)
    \/ FlagArrives(1)
    \/ FlagSteps(1)
    \/ ModerateArrives(1)
    \/ ModerateSteps(1)

SpecModerate == Init /\ [][NextModerate]_vars

(***************************************************************************)
(* The session routes of the pending/scheduled/completed/cancelled         *)
(* variant (src/routes/sessions.js over src/models/Session.js).            *)
(***************************************************************************)
\* The authenticated users of this variant: the two of the sessions above
\* and one more, who takes part in no session as a tutor.
Accounts == 1..(NumUsers + 1)

BasicStatuses == {"pending", "scheduled", "completed", "cancelled"}

BasicOps == {"accept", "decline", "complete", "cancel"}

\* The catch block of each route.
BasicFailure(op) ==
    IF op = "accept" THEN "Failed to accept" ELSE "Failed"

\* The other variables of the model, which these routes do not touch.
BasicUnchanged ==
    UNCHANGED <<sessions, users, audit, conversations, messages, transitions,
                statsUpdates, fired, notesReceived, reviews, inbox, unreadCounts>>

\* POST /sessions/request/:userId : the session is stored as pending, with
\* the user of the URL as its tutor and the requester as its student.
BasicRequest(r, u, userId) ==
    /\ receive(r)
    /\ Len(basicSessions) < MaxSessions
    /\ basicSessions' = Append(basicSessions,
                               [tutor |-> userId, student |-> u, status |-> "pending"])
    /\ respond(r, "Session requested")
    /\ BasicUnchanged

\* The first line of accept, decline, complete and cancel: Session.findById.
\* No session under the id: the next line reads a field of null, and the
\* catch block answers.
BasicFind(r, u, sid, op) ==
    /\ receive(r)
    /\ IF sid \in 1..Len(basicSessions)
          THEN continue(r, [req EXCEPT ![r] = [IdleReq EXCEPT
                   !.pc = "basic", !.op = op, !.actor = u, !.sid = sid,
                   !.doc = basicSessions[sid]]])
          ELSE respond(r, BasicFailure(op))
    /\ UNCHANGED basicSessions
    /\ BasicUnchanged

\* session.save() of a loaded session whose status was assigned.
basicSave(db, sid, doc) == [db EXCEPT ![sid].status = doc.status]

\* POST /sessions/:id/accept after the read.
BasicAccept(r) ==
    /\ req[r].pc = "basic" /\ req[r].op = "accept"
    /\ IF req[r].doc.tutor # req[r].actor
          THEN /\ respond(r, "Not authorized")
               /\ UNCHANGED basicSessions
          ELSE /\ basicSessions' = basicSave(basicSessions, req[r].sid,
                                             [req[r].doc EXCEPT !.status = "scheduled"])
               /\ respond(r, "Session accepted")
    /\ BasicUnchanged

\* POST /sessions/:id/decline after the read.
BasicDecline(r) ==
    /\ req[r].pc = "basic" /\ req[r].op = "decline"
    /\ basicSessions' = basicSave(basicSessions, req[r].sid,
                                  [req[r].doc EXCEPT !.status = "cancelled"])
    /\ respond(r, "Session declined")
    /\ BasicUnchanged

\* POST /sessions/:id/complete after the read.
BasicComplete(r) ==
    /\ req[r].pc = "basic" /\ req[r].op = "complete"
    /\ basicSessions' = basicSave(basicSessions, req[r].sid,
                                  [req[r].doc EXCEPT !.status = "completed"])
    /\ respond(r, "Session completed")
    /\ BasicUnchanged

\* POST /sessions/:id/cancel after the read.
BasicCancel(r) ==
    /\ req[r].pc = "basic" /\ req[r].op = "cancel"
    /\ basicSessions' = basicSave(basicSessions, req[r].sid,
                                  [req[r].doc EXCEPT !.status = "cancelled"])
    /\ respond(r, "Session cancelled")
    /\ BasicUnchanged

BasicRequestArrives(r) ==
    \E u \in Accounts, userId \in Users : BasicRequest(r, u, userId)

BasicTransitionArrives(r) ==
    \E u \in Accounts, sid \in SessionIds, op \in BasicOps : BasicFind(r, u, sid, op)

\* The requests of this variant, one at a time.
NextBasic ==
    \/ BasicRequestArrives(1)
    \/ BasicTransitionArrives(1)
    \/ BasicAccept(1)
    \/ BasicDecline(1)
    \/ BasicComplete(1)
    \/ BasicCancel(1)

SpecBasic == Init /\ [][NextBasic]_vars

(***************************************************************************)
(* The messages routes (src/routes/messages.js) over the Conversation and  *)
(* Message models (models/Message.js).  A conversation is named by the set *)
(* of its participants.                                                    *)
(***************************************************************************)
\* The paths of conversationSchema.  A path outside the schema is not
\* stored by create and is undefined on a loaded document.
ConversationPaths ==
    {"participants", "lastMessage", "unreadCounts", "relatedSession",
     "isActive", "archivedBy", "mutedBy"}

\* conversation.unreadCount.set(...), as the routes write it: a call on
\* undefined, which throws, unless the schema has a Map of that name.
unreadCountThrows == "unreadCount" \notin ConversationPaths

\* Conversation.create({ participants, unreadCount }) of the first message.
create(participants) == [conversations EXCEPT ![participants] = @ + 1]

\* A conversation as a route holds it after reading it: its participants
\* and the counters stored at the time of the read.
loaded(participants) ==
    [participants |-> participants, unreadCount |-> unreadCounts[participants]]

NewMessage(participants, sender) ==
    [conversation |-> participants, sender |-> sender, readBy |-> {}]

\* The pre-save hook of a new message: $inc of the sender's own entry of
\* unreadCounts by 0 (lastMessage is not part of the state).
messagePreSave(message) ==
    [unreadCounts EXCEPT ![message.conversation][message.sender] = @ + 0]

\* Message.updateMany: a read receipt of userId is pushed to every message
\* of the conversation that another user sent and that has none yet.
updateMany(participants, userId) ==
    [i \in 1..Len(inbox) |->
        IF /\ inbox[i].conversation = participants
           /\ inbox[i].sender # userId
           /\ userId \notin inbox[i].readBy
           THEN [inbox[i] EXCEPT !.readBy = @ \cup {userId}]
           ELSE inbox[i]]

\* conversation.participants.find(p => p !== userId)
otherUserId(participants, userId) == CHOOSE x \in participants : x # userId

\* The messages stored and the send requests on their way to storing one.
messagesSent ==
    Len(inbox) + Cardinality({r \in Slots : req[r].op \in {"new", "send"}})

\* The other variables of the model, which these routes do not touch.
MessagingUnchanged ==
    UNCHANGED <<sessions, users, audit, messages, transitions, statsUpdates,
                fired, notesReceived, reviews, basicSessions>>

\* POST /messages/new/:userId up to User.findById.
NewFindUser(r, u, targetUserId) ==
    /\ receive(r)
    /\ messagesSent < MaxMessages
    /\ IF targetUserId = u
          THEN respond(r, "You cannot message yourself")
          ELSE IF targetUserId \notin Users
          THEN respond(r, "Cannot send message to this user")
          ELSE continue(r, [req EXCEPT ![r] = [IdleReq EXCEPT
                   !.pc = "new-find", !.op = "new", !.actor = u,
                   !.doc = [participants |-> {u, targetUserId}]]])
    /\ UNCHANGED <<conversations, inbox, unreadCounts>>
    /\ MessagingUnchanged

\* Conversation.findOne({ participants: { $all: [...] } })
NewFindOne(r) ==
    /\ req[r].pc = "new-find"
    /\ IF findOne(req[r].doc.participants)
          THEN continue(r, [req EXCEPT ![r].pc = "new-message",
                                       ![r].doc = loaded(req[r].doc.participants)])
          ELSE continue(r, goto(r, "new-create"))
    /\ UNCHANGED <<conversations, inbox, unreadCounts>>
    /\ MessagingUnchanged

\* Conversation.create: the unreadCount of the call, 1 for the recipient, is
\* stored only if it is a path of the schema.
NewCreate(r) ==
    /\ req[r].pc = "new-create"
    /\ conversations' = create(req[r].doc.participants)
    /\ unreadCounts' =
          IF unreadCountThrows
             THEN unreadCounts
             ELSE [unreadCounts EXCEPT
                      ![req[r].doc.participants]
                       [otherUserId(req[r].doc.participants, req[r].actor)] = 1]
    /\ continue(r, [req EXCEPT ![r].pc = "new-message",
                                ![r].doc = [participants |-> req[r].doc.participants,
                                            unreadCount |-> unreadCounts'[req[r].doc.participants]]])
    /\ UNCHANGED inbox
    /\ MessagingUnchanged

\* Message.create, then the update of the conversation: the counter of the
\* recipient, as the route read it, plus 1 is saved only if the call on
\* unreadCount does not throw; when it throws the catch block answers, with
\* the message stored.
NewMessageCreate(r) ==
    /\ req[r].pc = "new-message"
    /\ LET message == NewMessage(req[r].doc.participants, req[r].actor)
           target == otherUserId(req[r].doc.participants, req[r].actor) IN
       /\ inbox' = Append(inbox, message)
       /\ IF unreadCountThrows
             THEN /\ unreadCounts' = messagePreSave(message)
                  /\ respond(r, "Failed to send message")
             ELSE /\ unreadCounts' = [messagePreSave(message) EXCEPT
                                         ![message.conversation][target] =
                                             req[r].doc.unreadCount[target] + 1]
                  /\ respond(r, "Message sent")
    /\ UNCHANGED conversations
    /\ MessagingUnchanged

\* POST /messages/:conversationId up to User.findById of the other user.
SendFind(r, u, conversationId) ==
    /\ receive(r)
    /\ messagesSent < MaxMessages
    /\ IF findOne(conversationId) /\ u \in conversationId
          THEN continue(r, [req EXCEPT ![r] = [IdleReq EXCEPT
                   !.pc = "send-message", !.op = "send", !.actor = u,
                   !.doc = loaded(conversationId)]])
          ELSE respond(r, "Conversation not found")
    /\ UNCHANGED <<conversations, inbox, unreadCounts>>
    /\ MessagingUnchanged

SendMessageCreate(r) ==
    /\ req[r].pc = "send-message"
    /\ LET message == NewMessage(req[r].doc.participants, req[r].actor)
           target == otherUserId(req[r].doc.participants, req[r].actor) IN
       /\ inbox' = Append(inbox, message)
       /\ IF unreadCountThrows
             THEN /\ unreadCounts' = messagePreSave(message)
                  /\ respond(r, "Failed to send message")
             ELSE /\ unreadCounts' = [messagePreSave(message) EXCEPT
                                         ![message.conversation][target] =
                                             req[r].doc.unreadCount[target] + 1]
                  /\ respond(r, "ok")
    /\ UNCHANGED conversations
    /\ MessagingUnchanged

\* GET /messages/:conversationId and POST /messages/:conversationId/read
\* up to the read of the conversation.
ReadFind(r, u, conversationId, op) ==
    /\ receive(r)
    /\ IF findOne(conversationId) /\ u \in conversationId
          THEN continue(r, [req EXCEPT ![r] = [IdleReq EXCEPT
                   !.pc = op, !.op = op, !.actor = u,
                   !.doc = loaded(conversationId)]])
          ELSE respond(r, "Conversation not found")
    /\ UNCHANGED <<conversations, inbox, unreadCounts>>
    /\ MessagingUnchanged

\* The read receipts, then the reset of the reader's counter.
markRead(r, failure) ==
    /\ inbox' = updateMany(req[r].doc.participants, req[r].actor)
    /\ IF unreadCountThrows
          THEN /\ UNCHANGED unreadCounts
               /\ respond(r, failure)
          ELSE /\ unreadCounts' = [unreadCounts EXCEPT
                                      ![req[r].doc.participants][req[r].actor] = 0]
               /\ respond(r, "ok")
    /\ UNCHANGED conversations
    /\ MessagingUnchanged

\* GET /messages/:conversationId after the read of the conversation.
ViewMarkRead(r) ==
    /\ req[r].pc = "view"
    /\ markRead(r, "Failed to load conversation")

\* POST /messages/:conversationId/read after the read of the conversation.
ReadMarkRead(r) ==
    /\ req[r].pc = "read"
    /\ markRead(r, "Failed to mark as read")

NewArrives(r) ==
    \E u \in Users, targetUserId \in Accounts : NewFindUser(r, u, targetUserId)

NewSteps(r) == NewFindOne(r) \/ NewCreate(r) \/ NewMessageCreate(r)

SendArrives(r) ==
    \E u \in Users, conversationId \in SUBSET Users : SendFind(r, u, conversationId)

ReadArrives(r) ==
    \E u \in Users, conversationId \in SUBSET Users, op \in {"view", "read"} :
        ReadFind(r, u, conversationId, op)

\* Sends, views and mark-reads, one request at a time.
NextMessages ==
    \/ NewArrives(1)
    \/ NewSteps(1)
    \/ SendArrives(1)
    \/ SendMessageCreate(1)
    \/ ReadArrives(1)
    \/ ViewMarkRead(1)
    \/ ReadMarkRead(1)

SpecMessages == Init /\ [][NextMessages]_vars

\* The same requests, overlapping.
NextMessagesPair ==
    \E r \in Slots :
        \/ NewArrives(r)
        \/ NewSteps(r)
        \/ SendArrives(r)
        \/ SendMessageCreate(r)
        \/ ReadArrives(r)
        \/ ViewMarkRead(r)
        \/ ReadMarkRead(r)

SpecMessagesPair == Init /\ [][NextMessagesPair]_vars

(***************************************************************************)
(* Vocabulary of the properties.                                           *)
(***************************************************************************)
AllIdle == \A r \in Slots : req[r].pc = "idle"

Stored == 1..Len(sessions)

\* The request in slot r takes the step.
Steps(r) == req'[r] # req[r]

\* The request in slot r is at its handler, before the transition's write.
AtHandler(r) == req[r].pc \in TransitionOps

Terminal == {"completed", "cancelled", "no-show"}

\* The edges of the state machine, per operation.
EdgesOf(op) ==
    CASE op = "confirm"  -> {<<"pending", "confirmed">>}
      [] op = "start"    -> {<<"confirmed", "in-progress">>}
      [] op = "complete" -> {<<"confirmed", "completed">>, <<"in-progress", "completed">>}
      [] op = "cancel"   -> {<<"pending", "cancelled">>, <<"confirmed", "cancelled">>}
      [] OTHER           -> {}

LegalFrom(op) == {e[1] : e \in EdgesOf(op)}

InvalidTransition ==
    {"Only pending sessions can be confirmed",
     "This session cannot be cancelled",
     "Only confirmed or in-progress sessions can be completed",
     "Only confirmed sessions can be started"}

\* Number of times the completions of the sessions u tutors updated stats.
HostedUpdates(u) ==
    Sum([s \in SessionIds |->
            IF s \in Stored /\ sessions[s].tutor = u THEN statsUpdates[s] ELSE 0],
        SessionIds)

\* The same for the sessions u attends as the student.
AttendedUpdates(u) ==
    Sum([s \in SessionIds |->
            IF s \in Stored /\ sessions[s].student = u THEN statsUpdates[s] ELSE 0],
        SessionIds)

DistinctParticipants == \A s \in Stored : sessions[s].tutor # sessions[s].student

\* No session's completion has been applied twice.
CompletedOnce == \A s \in Stored : statsUpdates[s] <= 1

(***************************************************************************)
(* C1: the stored status of a session changes only along the edges of the  *)
(* state machine, by the operation of that edge; a transition requested    *)
(* from a status that is not legal for it fails with its invalid-transition*)
(* error and leaves the sessions unchanged.                                *)
(***************************************************************************)
C1_StatusFollowsEdges ==
    [][/\ \A s \in Stored :
            sessions'[s].status # sessions[s].status =>
                \E r \in Slots :
                    /\ Steps(r) /\ AtHandler(r) /\ req[r].sid = s
                    /\ <<sessions[s].status, sessions'[s].status>> \in EdgesOf(req[r].op)
       /\ \A r \in Slots :
            ( /\ Steps(r) /\ AtHandler(r)
              /\ req[r].doc.status \notin LegalFrom(req[r].op)
              /\ req[r].op = "confirm" => req[r].actor = req[r].doc.tutor )
            => /\ sessions' = sessions
               /\ response' \in InvalidTransition]_vars

(***************************************************************************)
(* C2: however two complete requests on one session overlap, the session's *)
(* completion updates the participants' stats once, records one completion *)
(* event and grants each milestone at most once.                           *)
(***************************************************************************)
C2_CompleteAppliesOnce ==
    /\ \A s \in Stored :
        /\ statsUpdates[s] <= 1
        /\ audit[<<"SESSION_COMPLETE", s>>] <= 1
        /\ (AllIdle /\ sessions[s].status = "completed") => statsUpdates[s] = 1
    /\ \A k \in Users \X Milestones : fired[k] <= 1

(***************************************************************************)
(* C3: a transition's status write succeeds only while the stored status   *)
(* is still the one the request read: of two requests that read the same   *)
(* status, the second to write fails.                                      *)
(***************************************************************************)
C3_WritesSerialize ==
    [][\A r \in Slots :
        (Steps(r) /\ AtHandler(r) /\ transitions'[req[r].sid] # transitions[req[r].sid])
        => sessions[req[r].sid].status = req[r].doc.status]_vars

(***************************************************************************)
(* C4: when no request is in flight, every user's sessionsHosted,          *)
(* sessionsCompleted and points reflect the completion of every completed  *)
(* session of that user (sessions of two different participants, each      *)
(* completed once).                                                        *)
(***************************************************************************)
C4_NoLostUpdate ==
    (AllIdle /\ DistinctParticipants /\ CompletedOnce) =>
        \A u \in Users :
            /\ users[u].sessionsHosted = HostedUpdates(u)
            /\ users[u].sessionsCompleted = AttendedUpdates(u)
            /\ users[u].points = DefaultTutorPoints * HostedUpdates(u)
                                    + DefaultStudentPoints * AttendedUpdates(u)

(***************************************************************************)
(* C5: a confirm request by anyone but the session's tutor is rejected     *)
(* ("Only the tutor can confirm sessions") and changes no session.         *)
(***************************************************************************)
C5_OnlyTutorConfirms ==
    [][\A r \in Slots :
        (Steps(r) /\ req[r].pc = "confirm" /\ req[r].actor # req[r].doc.tutor)
        => /\ response' = "Only the tutor can confirm sessions"
           /\ sessions' = sessions]_vars

\* A student's confirm has been rejected and the session is still pending.
C5_Witness ==
    /\ response = "Only the tutor can confirm sessions"
    /\ \E s \in Stored : sessions[s].status = "pending" /\ sessions[s].tutor # sessions[s].student

(***************************************************************************)
(* C6: the length of statusHistory is 1 plus the number of transitions     *)
(* applied to the session.                                                 *)
(***************************************************************************)
C6_HistoryLength ==
    \A s \in Stored : Len(sessions[s].statusHistory) = 1 + transitions[s]

C8_FirstHostedOnce ==
    AllIdle =>
        \A u \in Users :
            /\ fired[<<u, "First Session Hosted">>] = IF HostedUpdates(u) >= 1 THEN 1 ELSE 0
            /\ ("First Session Hosted" \in users[u].achievements) <=> HostedUpdates(u) >= 1

\* A tutor has completed two hosted sessions.
C8_Witness ==
    /\ AllIdle
    /\ \E u \in Users :
        /\ HostedUpdates(u) = 2
        /\ users[u].sessionsHosted = 2
        /\ fired[<<u, "First Session Hosted">>] = 1

(***************************************************************************)
(* C9: when completions of different sessions overlap (each session        *)
(* completed once, by two different participants), each milestone is       *)
(* granted to a user at most once, and once no request is in flight it has *)
(* been granted exactly when the user has a completion that counts for it. *)
(***************************************************************************)
C9_MilestoneOnce ==
    (DistinctParticipants /\ CompletedOnce) =>
        \A u \in Users :
            /\ fired[<<u, "First Session Hosted">>] <= 1
            /\ fired[<<u, "First Lesson Learned">>] <= 1
            /\ AllIdle =>
                /\ fired[<<u, "First Session Hosted">>] >= 1 <=> HostedUpdates(u) >= 1
                /\ fired[<<u, "First Lesson Learned">>] >= 1 <=> AttendedUpdates(u) >= 1

(***************************************************************************)
(* C10: with requests running one after another, once a complete has       *)
(* succeeded the session is completed with pointsAwarded 20 and 10, and    *)
(* each completion has added 1 to the tutor's sessionsHosted, 1 to the     *)
(* student's sessionsCompleted, 20 points to the tutor and 10 to the       *)
(* student.                                                                *)
(***************************************************************************)
C10_CompleteAwards ==
    AllIdle =>
        /\ \A s \in Stored :
            statsUpdates[s] = 1 =>
                /\ sessions[s].status = "completed"
                /\ sessions[s].pointsAwarded =
                       [tutor |-> DefaultTutorPoints, student |-> DefaultStudentPoints]
        /\ \A u \in Users :
            /\ users[u].sessionsHosted = HostedUpdates(u)
            /\ users[u].sessionsCompleted = AttendedUpdates(u)
            /\ users[u].points = DefaultTutorPoints * HostedUpdates(u)
                                    + DefaultStudentPoints * AttendedUpdates(u)

(***************************************************************************)
(* C11: a cancel by actor A with reason R that finds the session pending   *)
(* or confirmed writes status cancelled, cancellation.cancelledBy = A and  *)
(* cancellation.reason = R, and appends a history entry that carries R.    *)
(***************************************************************************)
C11_CancelRecords ==
    [][\A r \in Slots, reason \in Reasons :
        (Cancel(r, reason) /\ req[r].doc.status \in {"pending", "confirmed"})
        => LET s == req[r].sid
               h == sessions[s].statusHistory
               hn == sessions'[s].statusHistory IN
           /\ sessions'[s].status = "cancelled"
           /\ sessions'[s].cancellation =
                  [cancelledBy |-> req[r].actor, reason |-> reason]
           /\ Len(hn) > Len(h)
           /\ \E i \in (Len(h) + 1)..Len(hn) :
                  hn[i] = HistoryEntry("cancelled", req[r].actor, reason)]_vars

\* The student has cancelled a session with a reason and the request is over.
C11_Witness ==
    /\ AllIdle
    /\ response = "ok"
    /\ \E s \in Stored, reason \in Reasons :
        /\ sessions[s].tutor # sessions[s].student
        /\ sessions[s].status = "cancelled"
        /\ sessions[s].cancellation =
               [cancelledBy |-> sessions[s].student, reason |-> reason]
        /\ \E i \in 1..Len(sessions[s].statusHistory) :
               sessions[s].statusHistory[i] =
                   HistoryEntry("cancelled", sessions[s].student, reason)

(***************************************************************************)
(* C12: every stored session, and every session a request has created,    *)
(* has a tutor different from its student.                                 *)
(***************************************************************************)
C12_TutorIsNotStudent ==
    /\ \A s \in Stored : sessions[s].tutor # sessions[s].student
    /\ \A r \in Slots :
        req[r].op = "request" => req[r].doc.tutor # req[r].doc.student

(***************************************************************************)
(* C14: a transition request that fails as not found, unauthorized or      *)
(* invalid transition changes nothing: no session, no user counter, points *)
(* or achievement, no audit event, no conversation and no message.         *)
(***************************************************************************)
Blocked ==
    {"Session not found", "Access denied", "Only the tutor can confirm sessions"}
        \cup InvalidTransition

\* The request in slot r, arriving or at its handler, ends with a blocking error.
FailsIn(r) ==
    /\ req[r].pc \in {"idle"} \cup TransitionOps
    /\ req'[r].pc = "idle"
    /\ \A q \in Slots \ {r} : req'[q] = req[q]
    /\ response' \in Blocked

C14_FailureBlocks ==
    [][(\E r \in Slots : FailsIn(r))
        => UNCHANGED <<sessions, users, audit, conversations, messages,
                       transitions, statsUpdates, fired>>]_vars

\* A second confirm of a confirmed session has failed: the session, the one
\* audit event and the one message of the first confirm are all there is.
C14_Witness ==
    /\ AllIdle
    /\ response = "Only pending sessions can be confirmed"
    /\ \E s \in Stored :
        /\ sessions[s].status = "confirmed"
        /\ audit[<<"SESSION_CONFIRM", s>>] = 1
        /\ messages[<<"confirmed", s>>] = 1

(***************************************************************************)
(* C15: in every state the last entry of a session's statusHistory records *)
(* the session's current status.                                           *)
(***************************************************************************)
C15_HistoryAgrees ==
    \A s \in Stored :
        /\ Len(sessions[s].statusHistory) >= 1
        /\ sessions[s].statusHistory[Len(sessions[s].statusHistory)].status
               = sessions[s].status

(***************************************************************************)
(* C16: a session whose status is not cancelled has no cancellation        *)
(* record (no cancelledBy, no reason).                                     *)
(***************************************************************************)
C16_CancellationOnlyWhenCancelled ==
    \A s \in Stored :
        sessions[s].status # "cancelled" => sessions[s].cancellation = NoCancellation

(***************************************************************************)
(* C17: a session whose status is not completed has pointsAwarded          *)
(* tutor = 0 and student = 0.                                              *)
(***************************************************************************)
C17_PointsOnlyWhenCompleted ==
    \A s \in Stored :
        sessions[s].status # "completed"
            => sessions[s].pointsAwarded = [tutor |-> 0, student |-> 0]

(***************************************************************************)
(* C18: statusHistory is append-only: in every step the statusHistory of a *)
(* session before the step is a prefix of its statusHistory after it.      *)
(***************************************************************************)
C18_HistoryAppendOnly ==
    [][\A s \in Stored :
        /\ Len(sessions[s].statusHistory) <= Len(sessions'[s].statusHistory)
        /\ SubSeq(sessions'[s].statusHistory, 1, Len(sessions[s].statusHistory))
               = sessions[s].statusHistory]_vars

\* A confirm and a cancel that read the same pending session have both
\* written: the entries of both are in the history.
C18_Witness ==
    \E s \in Stored :
        /\ transitions[s] = 2
        /\ \E i, j \in 1..Len(sessions[s].statusHistory) :
            /\ sessions[s].statusHistory[i].status = "cancelled"
            /\ sessions[s].statusHistory[j].status = "confirmed"
            /\ i < j

(***************************************************************************)
(* C13: a side effect that fails after the status write does not roll the  *)
(* status back, and the request is still answered as a success.            *)
(***************************************************************************)
C13_DegradedIsSuccess ==
    [][\A r \in Slots :
        (Steps(r) /\ req[r].pc \in AuditSteps \cup MessageSteps \cup StatsSteps)
        => /\ sessions'[req[r].sid].status = sessions[req[r].sid].status
           /\ req'[r].pc = "idle" => response' = "ok"]_vars

(***************************************************************************)
(* C19: when recording the audit event of a transition fails, the request  *)
(* is not aborted: no session changes, no error is answered and the        *)
(* request goes on with the step that follows the audit call (the message  *)
(* of a confirm or cancel, the success response of a complete).            *)
(***************************************************************************)
C19_AuditFailureSwallowed ==
    [][\A r \in Slots :
        (Steps(r) /\ req[r].pc \in AuditSteps /\ audit' = audit)
        => /\ sessions' = sessions
           /\ req[r].pc = "confirm-audit"
                => req'[r].pc = "confirm-message" /\ response' = response
           /\ req[r].pc = "cancel-audit"
                => req'[r].pc = "cancel-message" /\ response' = response
           /\ req[r].pc = "complete-audit"
                => req'[r].pc = "idle" /\ response' = "ok"]_vars

\* A confirm has succeeded and posted its message although its audit event
\* was never recorded.
C19_Witness ==
    /\ AllIdle
    /\ response = "ok"
    /\ \E s \in Stored :
        /\ sessions[s].status = "confirmed"
        /\ audit[<<"SESSION_CONFIRM", s>>] = 0
        /\ messages[<<"confirmed", s>>] = 1

(***************************************************************************)
(* C20: at most one review exists per (session, reviewer) pair, also when  *)
(* two submissions of the same reviewer for the same session overlap.      *)
(***************************************************************************)
C20_OneReviewPerPair ==
    \A sid \in SessionIds, u \in Users :
        Cardinality({i \in 1..Len(reviews) :
                        reviews[i].session = sid /\ reviews[i].reviewer = u}) <= 1

\* Two submissions of one reviewer overlapped: both passed the check for an
\* existing review, one was stored and the other refused by the index.
C20_Witness ==
    /\ AllIdle
    /\ response = "Failed to submit review"
    /\ Len(reviews) >= 1

(***************************************************************************)
(* C21: with requests running one after another, the effects of a complete *)
(* come in order: the counters are written only once the completed status  *)
(* and its history entry are stored, the achievements are granted only     *)
(* once the counters are written, and the audit event is recorded only     *)
(* once the conversation message of the completion is posted (every        *)
(* audited operation on the session, this one included, has its message).  *)
(***************************************************************************)
MessagesOf(s) == Sum([k \in MessageKinds |-> messages[<<k, s>>]], MessageKinds)

SessionAudits ==
    {"SESSION_CREATE", "SESSION_CONFIRM", "SESSION_CANCEL", "SESSION_COMPLETE"}

AuditsOf(a, s) == Sum([k \in SessionAudits |-> a[<<k, s>>]], SessionAudits)

C21_CompleteOrder ==
    [][\A r \in Slots :
        Steps(r) =>
            LET q == req[r]
                d == sessions[q.sid]
                h == d.statusHistory IN
            /\ q.pc \in {"complete-save-tutor", "complete-save-student"}
                => /\ d.status = "completed"
                   /\ Len(h) >= 1 /\ h[Len(h)].status = "completed"
            /\ q.pc \in {"complete-achievement-tutor", "complete-achievement-student"}
                => /\ statsUpdates[q.sid] >= 1
                   /\ users[q.doc.tutor].sessionsHosted >= 1
                   /\ users[q.doc.student].sessionsCompleted >= 1
            /\ q.pc = "complete-audit"
                => MessagesOf(q.sid) >= AuditsOf(audit', q.sid)]_vars

(***************************************************************************)
(* C22: every confirm that was applied has posted one confirmation message *)
(* to the conversation of the session's tutor and student and recorded one *)
(* SESSION_CONFIRM event by the time its request is over, and no message   *)
(* or event comes without its confirm; the same for cancel with the        *)
(* cancellation message and SESSION_CANCEL.                                *)
(***************************************************************************)
\* Number of times the method of status st was applied to session s: the
\* history entries the method itself pushed.
Applied(s, st) ==
    Cardinality({i \in 1..Len(sessions[s].statusHistory) :
                    /\ sessions[s].statusHistory[i].status = st
                    /\ sessions[s].statusHistory[i].changedBy # NoUser})

C23_NotesKeepStatus ==
    [][\A r \in Slots :
        (Steps(r) /\ req[r].pc \in {"notes", "notes-save"})
        => LET s == req[r].sid IN
           /\ sessions'[s].status = sessions[s].status
           /\ sessions'[s].statusHistory = sessions[s].statusHistory
           /\ sessions'[s].cancellation = sessions[s].cancellation
           /\ sessions'[s].pointsAwarded = sessions[s].pointsAwarded]_vars

\* Notes were saved after a cancel request had read the session and before
\* that request was over.
C23_Witness ==
    \E r \in Slots :
        /\ req[r].pc \in {"cancel-audit", "cancel-message", "cancel-create"}
        /\ req[r].doc.tutorNotes = NoNotes /\ req[r].doc.studentNotes = NoNotes
        /\ sessions[req[r].sid].status = "cancelled"
        /\ \/ sessions[req[r].sid].tutorNotes # NoNotes
           \/ sessions[req[r].sid].studentNotes # NoNotes

(***************************************************************************)
(* C29: at most one conversation is stored per set of participants, also   *)
(* when two getOrCreate calls for the same participants overlap.           *)
(***************************************************************************)
C29_OneConversationPerPair ==
    \A p \in SUBSET Users : conversations[p] <= 1

(***************************************************************************)
(* C24: every stored review is of a session whose status is completed, its *)
(* reviewer is the session's tutor or student, and its reviewee is the     *)
(* other participant of the session.                                       *)
(***************************************************************************)
C24_ReviewOfCompletedByParticipant ==
    \A i \in 1..Len(reviews) :
        LET d == sessions[reviews[i].session] IN
        /\ d.status = "completed"
        /\ reviews[i].reviewer \in {d.tutor, d.student}
        /\ reviews[i].reviewee \in {d.tutor, d.student}
        /\ reviews[i].reviewee # reviews[i].reviewer

(***************************************************************************)
(* C30: a review's isApproved flag is true exactly when its                *)
(* moderationStatus is approved.                                           *)
(***************************************************************************)
C30_ApprovedIffStatus ==
    \A i \in 1..Len(reviews) :
        reviews[i].isApproved <=> reviews[i].moderationStatus = "approved"

(***************************************************************************)
(* C25: in the pending/scheduled/completed/cancelled variant a session's   *)
(* status becomes scheduled only by an accept of the session's tutor while *)
(* the stored status is pending, and an accept of a completed or cancelled *)
(* session leaves the session as it is.                                    *)
(***************************************************************************)
C25_ScheduledOnlyFromPending ==
    [][\A s \in 1..Len(basicSessions) :
        /\ (basicSessions'[s].status = "scheduled" /\ basicSessions[s].status # "scheduled")
           => \E r \in Slots :
                 /\ req[r].pc = "basic" /\ req[r].op = "accept"
                 /\ req[r].sid = s /\ Steps(r)
                 /\ req[r].actor = basicSessions[s].tutor
                 /\ basicSessions[s].status = "pending"
        /\ \A r \in Slots :
              (/\ req[r].pc = "basic" /\ req[r].op = "accept"
               /\ req[r].sid = s /\ Steps(r)
               /\ basicSessions[s].status \in {"completed", "cancelled"})
              => basicSessions'[s] = basicSessions[s]]_vars

(***************************************************************************)
(* C26: in the pending/scheduled/completed/cancelled variant a decline,    *)
(* complete or cancel by a user who is neither the tutor nor the student   *)
(* of the session leaves the session unchanged.                            *)
(***************************************************************************)
C26_OnlyParticipantsChange ==
    [][\A r \in Slots :
        (/\ Steps(r) /\ req[r].pc = "basic"
         /\ req[r].op \in {"decline", "complete", "cancel"}
         /\ req[r].actor \notin {basicSessions[req[r].sid].tutor,
                                 basicSessions[req[r].sid].student})
        => basicSessions' = basicSessions]_vars

\* The messages of conversation p that another user sent and that carry no
\* read receipt of u.
UnreadOf(p, u) ==
    Cardinality({i \in 1..Len(inbox) :
        inbox[i].conversation = p /\ inbox[i].sender # u /\ u \notin inbox[i].readBy})

(***************************************************************************)
(* C27: with one request at a time, between requests the unread counter    *)
(* stored for a participant of a conversation is the number of messages of *)
(* the conversation that the other participant sent and the participant    *)
(* has not read: 1 after the first message, 0 right after a view.          *)
(***************************************************************************)
C27_CounterIsUnread ==
    AllIdle =>
        \A p \in SUBSET Users : \A u \in p :
            conversations[p] > 0 => unreadCounts[p][u] = UnreadOf(p, u)

(***************************************************************************)
(* C28: with sends, views and mark-reads overlapping, once all requests    *)
(* are over no unread message is hidden by a counter of 0 and no read      *)
(* message is still counted.                                               *)
(***************************************************************************)
C28_CounterAfterInterleaving ==
    AllIdle =>
        \A p \in SUBSET Users : \A u \in p :
            conversations[p] > 0 =>
                /\ UnreadOf(p, u) > 0 => unreadCounts[p][u] > 0
                /\ unreadCounts[p][u] <= UnreadOf(p, u)

====
